---- MODULE Spec2Model ----
(***************************************************************************)
(* Job time-tracking state machine of app/api/v1/timesheets.py: the        *)
(* time_entries, job_assignments, assignment_activity and notifications    *)
(* collections and the request handlers that read and write them.          *)
(*                                                                         *)
(* Time is datetime.utcnow() in whole seconds.  A handler that runs alone  *)
(* is one action (Spec, and SpecGate for several callers of one job);      *)
(* SpecConc additionally lets clock-in requests interleave at the await    *)
(* between their reads and their insert.                                   *)
(***************************************************************************)
EXTENDS Integers, Sequences, FiniteSets, Bags, TLC

\* ---- bounds of the model ----
MaxTicks == 2
MaxClosed == 1
MaxActivity == 1
MaxInflight == 2
MaxManual == 2
MaxEntryId == 2
MaxSynthetic == 2

\* ---- program constants ----
SecondsPerMinute == 60
MinutesPerHour == 60
CentsPerUnit == 100
TickSeconds == SecondsPerMinute \div 2
SecondsPerDay == 24 * 60 * SecondsPerMinute
DaysPerYear == 365
EpochYear == 1970

\* Python None: for timestamps / integers and for strings
None == 0 - 1
NoneStr == "None"

\* ---- the callers: get_current_user yields {id, company_id, role} ----
Users == {"u1", "u2"}
Employees == {"e1", "e2"}
JobIds == {"j1", "jx"}

\* "u3" is an employee of another company, "c2"
RoleOf(u) == IF u \in {"u1", "u3"} THEN "employee" ELSE "manager"
CompanyOf(u) == IF u = "u3" THEN "c2" ELSE "c1"

\* employees collection: user_id -> employee _id within the caller's company
_get_current_employee_id(u) ==
  IF u = "u1" THEN "e1" ELSE IF u = "u3" THEN "e3" ELSE "e2"
UserOfEmployee(e) == IF e = "e1" THEN "u1" ELSE IF e = "e3" THEN "u3" ELSE "u2"

\* the document create_job inserts; rates are whole currency units
JobDoc(c, rate) == [company_id |-> c, active |-> TRUE, default_rate |-> rate]

\* the jobs collection the specifications start from; "jx" is the id of no job
InitialJobs == [j \in {"j1"} |-> JobDoc("c1", 10)]

is_admin_like(role) == role \in {"admin", "manager", "hr"}

\* ---- request inputs ----
Reasons == {NoneStr, "", "sick"}
FailPoints == {"none", "assign", "activity"}

VARIABLES
  now,                  \* datetime.utcnow(), seconds
  jobs,                 \* _id -> job document
  job_rates,            \* <<company, job, employee>> -> override rate
  time_entries,         \* _id -> document
  next_id,              \* next ObjectId of time_entries
  job_assignments,      \* <<company, job, employee>> -> [state, state_changed_at]
  assignment_activity,  \* bag of activity documents
  notifications,        \* bag of notification documents
  resp,                 \* the response of the last completed request
  inflight              \* clock-in requests between their reads and their insert

vars == <<now, jobs, job_rates, time_entries, next_id, job_assignments,
          assignment_activity, notifications, resp, inflight>>

db == <<jobs, job_rates, time_entries, next_id, job_assignments,
        assignment_activity, notifications>>

\* the collections the time-tracking handlers only read
catalog == <<jobs, job_rates>>

\* find_one({"_id": j, "company_id": c}) finds a job
JobExists(c, j) == j \in DOMAIN jobs /\ jobs[j].company_id = c

\* ---- pure helpers ----
Max0(x) == IF x > 0 THEN x ELSE 0

\* int(delta.total_seconds() // 60)
FloorMinutes(delta) == delta \div SecondsPerMinute

\* max(0, int((now - started).total_seconds() // 60))
SpanMinutes(t, started) == Max0(FloorMinutes(t - started))

_start_of_day(t) == (t \div SecondsPerDay) * SecondsPerDay

\* (payload.reason or None): the empty string is falsy
OrNone(s) == IF s = "" THEN NoneStr ELSE s

\* the same query without its is_active filter
EntryIdsOf(c, e) ==
  {i \in DOMAIN time_entries :
     /\ time_entries[i].company_id = c
     /\ time_entries[i].employee_id = e}

\* find({"company_id", "employee_id", "is_active": True})
ActiveIds(c, e) ==
  {i \in DOMAIN time_entries :
     /\ time_entries[i].company_id = c
     /\ time_entries[i].employee_id = e
     /\ time_entries[i].is_active}

\* update_one(..., {"$set": set}): the fields of set replace those of doc
ApplySet(doc, set) ==
  [f \in DOMAIN doc |-> IF f \in DOMAIN set THEN set[f] ELSE doc[f]]

\* the derived "state" of an entry in my_time_entries / assignment_details
DerivedState(doc) ==
  IF doc.end_ts # None /\ doc.abandoned_reason # NoneStr THEN "abandoned"
  ELSE IF doc.end_ts # None THEN "completed"
  ELSE IF doc.paused_started_at # None THEN "paused"
  ELSE "active"

ActivityDoc(c, e, j, action, actor) ==
  [company_id |-> c, employee_id |-> e, job_id |-> j, action |-> action,
   actor_user_id |-> actor]

LogHasRoom == BagCardinality(assignment_activity) < MaxActivity

\* the entries that clock-out or abandon has closed
ClosedIds == {i \in DOMAIN time_entries : time_entries[i].end_ts # None}

\* new sessions are offered while fewer than MaxClosed entries are closed
SessionsLeft == Cardinality(ClosedIds) < MaxClosed

\* an update that matches no row
KeepAssignmentState(ja, c, j, e, st, t) == ja

\* job_assignments.update_one(key, {"$set": {"state": st, "state_changed_at": t}})
\* without upsert: no row, no change
SetAssignmentState(ja, c, j, e, st, t) ==
  IF <<c, j, e>> \in DOMAIN ja
    THEN [ja EXCEPT ![<<c, j, e>>] = [state |-> st, state_changed_at |-> t]]
    ELSE ja

\* "except Exception: pass" around the side effects: nothing propagates
ExceptReraise(fail) == fail # "none"
ExceptPass(fail) == FALSE

\* the best-effort block of a transition: assignment update, then activity insert;
\* fail names the call that raises ("none": neither)
SideEffects(c, j, e, u, st, action, t, fail) ==
  /\ job_assignments' =
       IF fail = "assign" THEN job_assignments
       ELSE SetAssignmentState(job_assignments, c, j, e, st, t)
  /\ assignment_activity' =
       IF fail = "none"
         THEN assignment_activity (+) SetToBag({ActivityDoc(c, e, j, action, u)})
         ELSE assignment_activity
  /\ UNCHANGED notifications

\* float(None) raises TypeError; no rate is negative
TypeError == 0 - 2

\* the override of the exact tuple, else the job's default_rate, else 0
_get_effective_rate(c, j, e) ==
  IF <<c, j, e>> \in DOMAIN job_rates THEN job_rates[<<c, j, e>>]
  ELSE IF JobExists(c, j)
    THEN (IF jobs[j].default_rate = None THEN TypeError ELSE jobs[j].default_rate)
  ELSE 0

\* round(n / d, 0) of a non-negative quotient: to nearest, ties to even
RoundHalfEven(n, d) ==
  LET q == n \div d
      r == n % d
  IN IF 2 * r < d THEN q
     ELSE IF 2 * r > d THEN q + 1
     ELSE IF q % 2 = 0 THEN q ELSE q + 1

\* the same product cut to two decimals instead of rounded
AmountTruncated(minutes, rate) == (minutes * rate * CentsPerUnit) \div MinutesPerHour

\* round((float(minutes) / 60.0) * rate, 2), in hundredths of the currency unit
Amount(minutes, rate) == RoundHalfEven(minutes * rate * CentsPerUnit, MinutesPerHour)

\* what a transition does after its time-entry write: it resolves the rate, and a
\* raise there ends the request before the best-effort block
AfterWrite(c, j, e, u, st, action, t, fail) ==
  IF _get_effective_rate(c, j, e) = TypeError
    THEN UNCHANGED <<job_assignments, assignment_activity, notifications>>
    ELSE SideEffects(c, j, e, u, st, action, t, fail)

StatusAfter(c, j, e, fail) ==
  IF _get_effective_rate(c, j, e) = TypeError THEN 500
  ELSE IF ExceptPass(fail) THEN 500 ELSE 200

\* rate and amount of the TimeEntryOut a closing request returns
AmountOut(c, j, e, minutes) ==
  LET rate == _get_effective_rate(c, j, e)
  IN IF rate = TypeError THEN <<>>
     ELSE [rate |-> rate, amount |-> IF minutes # 0 THEN Amount(minutes, rate) ELSE 0]

\* what a request was and how it was answered; job_id is the job the request
\* named, body what the answer carries beyond the fields here
ResponseOn(j, op, u, code, detail, id, dur, st, fail) ==
  [op |-> op, user |-> u, job_id |-> j, code |-> code, detail |-> detail,
   entry_id |-> id, duration_minutes |-> dur, state |-> st, fail |-> fail,
   body |-> <<>>]

Response(op, u, code, detail, id, dur, st, fail) ==
  ResponseOn(NoneStr, op, u, code, detail, id, dur, st, fail)

NoResponse == Response("none", "u1", 0, "", None, None, NoneStr, "none")

\* no response is on its way to a caller: requests are served one after another
Idle == resp = NoResponse

\* raise HTTPException before any write
RejectOn(j, op, u, code, detail) ==
  /\ Idle
  /\ resp' = ResponseOn(j, op, u, code, detail, None, None, NoneStr, "none")
  /\ UNCHANGED <<db, now, inflight>>

Reject(op, u, code, detail) == RejectOn(NoneStr, op, u, code, detail)

\* a colleague of the tracked employee was assigned to the job earlier
\* (assign_job by an admin, whose activity insert failed)
OtherAssigned ==
  <<"c1", "j1", "e2">> :> [state |-> "assigned", state_changed_at |-> 0]

\* empty collections next to the jobs js and the assignment rows ja
InitOn(js, ja) ==
  /\ now = 0
  /\ jobs = js
  /\ job_rates = <<>>
  /\ time_entries = <<>>
  /\ next_id = 1
  /\ job_assignments = ja
  /\ assignment_activity = EmptyBag
  /\ notifications = EmptyBag
  /\ resp = NoResponse
  /\ inflight = EmptyBag

Init == \E ja \in {<<>>, OtherAssigned} : InitOn(InitialJobs, ja)

\* the clock advances between requests
Tick ==
  /\ Idle
  /\ now < MaxTicks * TickSeconds
  /\ now' = now + TickSeconds
  /\ UNCHANGED <<db, resp, inflight>>


\* the response of the last request reaches its caller
Respond ==
  /\ ~Idle
  /\ resp' = NoResponse
  /\ UNCHANGED <<db, now, inflight>>

\* ---- clock-in (POST /entries/clock-in) ----

\* clock_in without its "ensure no other active entry" check
ClockInCheckNoActive(u, j) ==
  LET c == CompanyOf(u)
      e == _get_current_employee_id(u)
      has_assign == {k \in DOMAIN job_assignments : k[1] = c /\ k[2] = j}
      mine == {k \in has_assign : k[3] = e}
  IN IF ~(JobExists(c, j) /\ jobs[j].active) THEN "Invalid or inactive job"
     ELSE IF ~is_admin_like(RoleOf(u)) /\ has_assign # {} /\ mine = {}
       THEN "You are not assigned to this job"
     ELSE "ok"

\* clock_in applying the assignment gate to every caller, whatever the role
ClockInCheckGateAll(u, j) ==
  LET c == CompanyOf(u)
      e == _get_current_employee_id(u)
      has_assign == {k \in DOMAIN job_assignments : k[1] = c /\ k[2] = j}
      mine == {k \in has_assign : k[3] = e}
  IN IF ~(JobExists(c, j) /\ jobs[j].active) THEN "Invalid or inactive job"
     ELSE IF ActiveIds(c, e) # {} THEN "You already have an active time entry"
     ELSE IF has_assign # {} /\ mine = {} THEN "You are not assigned to this job"
     ELSE "ok"

\* clock_in counting as "mine" only a row that is not done or canceled
ClockInCheckOpenRows(u, j) ==
  LET c == CompanyOf(u)
      e == _get_current_employee_id(u)
      has_assign == {k \in DOMAIN job_assignments : k[1] = c /\ k[2] = j}
      mine == {k \in has_assign :
                 k[3] = e /\ job_assignments[k].state \notin {"done", "canceled"}}
  IN IF ~(JobExists(c, j) /\ jobs[j].active) THEN "Invalid or inactive job"
     ELSE IF ActiveIds(c, e) # {} THEN "You already have an active time entry"
     ELSE IF ~is_admin_like(RoleOf(u)) /\ has_assign # {} /\ mine = {}
       THEN "You are not assigned to this job"
     ELSE "ok"

\* the checks of clock_in before its insert, in the order the code makes them
ClockInCheck(u, j) ==
  LET c == CompanyOf(u)
      e == _get_current_employee_id(u)
      has_assign == {k \in DOMAIN job_assignments : k[1] = c /\ k[2] = j}
      mine == {k \in has_assign : k[3] = e}
  IN IF ~(JobExists(c, j) /\ jobs[j].active) THEN "Invalid or inactive job"
     ELSE IF ActiveIds(c, e) # {} THEN "You already have an active time entry"
     ELSE IF ~is_admin_like(RoleOf(u)) /\ has_assign # {} /\ mine = {}
       THEN "You are not assigned to this job"
     ELSE "ok"

\* the document clock_in inserts
ClockInDoc(c, e, j, t) ==
  [company_id |-> c, employee_id |-> e, job_id |-> j,
   date |-> _start_of_day(t), start_ts |-> t, end_ts |-> None,
   break_minutes |-> 0, break_started_at |-> None,
   paused_minutes |-> 0, paused_started_at |-> None,
   pause_last_reason |-> NoneStr, planned_resume_at |-> None,
   abandoned_reason |-> NoneStr, is_active |-> TRUE,
   duration_minutes |-> None, source |-> "clock"]

ClockInRejects(u, j) ==
  \/ /\ ClockInCheck(u, j) = "Invalid or inactive job"
     /\ RejectOn(j, "clock_in", u, 400, "Invalid or inactive job")
  \/ /\ ClockInCheck(u, j) = "You already have an active time entry"
     /\ RejectOn(j, "clock_in", u, 400, "You already have an active time entry")
  \/ /\ ClockInCheck(u, j) = "You are not assigned to this job"
     /\ RejectOn(j, "clock_in", u, 403, "You are not assigned to this job")

\* insert_one, then the best-effort assignment update and activity record;
\* t is the "now" the request took after its checks
ClockInWrite(u, j, t, fail) ==
  LET c == CompanyOf(u)
      e == _get_current_employee_id(u)
  IN /\ SessionsLeft
     /\ Idle /\ (fail = "none" => LogHasRoom)
     /\ time_entries' = (next_id :> ClockInDoc(c, e, j, t)) @@ time_entries
     /\ next_id' = next_id + 1
     /\ AfterWrite(c, j, e, u, "in_progress", "started", now, fail)
     /\ resp' = ResponseOn(j, "clock_in", u, StatusAfter(c, j, e, fail),
                           "ok", next_id, None, "active", fail)
     /\ UNCHANGED catalog

ClockIn(u, j) ==
  \/ ClockInRejects(u, j)
  \/ /\ ClockInCheck(u, j) = "ok"
     /\ \E fail \in FailPoints : ClockInWrite(u, j, now, fail)
     /\ UNCHANGED <<now, inflight>>

\* the same handler, suspended at the await between its reads and insert_one
ClockInBegin(u, j) ==
  \/ ClockInRejects(u, j)
  \/ /\ ClockInCheck(u, j) = "ok"
     /\ BagCardinality(inflight) < MaxInflight
     /\ Idle
     /\ inflight' = inflight (+) SetToBag({[user |-> u, job |-> j, now |-> now]})
     /\ UNCHANGED <<db, now, resp>>

ClockInFinish(r) ==
  /\ BagIn(r, inflight)
  /\ inflight' = inflight (-) SetToBag({r})
  /\ \E fail \in FailPoints : ClockInWrite(r.user, r.job, r.now, fail)
  /\ UNCHANGED now

\* ---- break start / end ----

break_start_set(t) == [break_started_at |-> t]

BreakStart(u) ==
  LET c == CompanyOf(u)
      e == _get_current_employee_id(u)
  IN \/ /\ ActiveIds(c, e) = {}
        /\ Reject("break_start", u, 400, "No active time entry to start a break")
     \/ \E id \in ActiveIds(c, e) :
          LET ent == time_entries[id]
          IN \/ /\ ent.paused_started_at # None
                /\ Reject("break_start", u, 400, "Cannot start a break while job is paused")
             \/ /\ ent.paused_started_at = None
                /\ ent.break_started_at # None
                /\ Reject("break_start", u, 400, "Already on a break")
             \/ /\ ent.paused_started_at = None
                /\ ent.break_started_at = None
                /\ Idle
                /\ time_entries' =
                     [time_entries EXCEPT ![id] = ApplySet(ent, break_start_set(now))]
                /\ resp' = Response("break_start", u, StatusAfter(c, ent.job_id, e, "none"),
                                    "ok", id, None, NoneStr, "none")
                /\ UNCHANGED <<next_id, job_assignments, assignment_activity,
                               notifications, now, inflight, catalog>>

break_end_set(ent, t) ==
  [break_minutes |-> ent.break_minutes + SpanMinutes(t, ent.break_started_at),
   break_started_at |-> None]

BreakEnd(u) ==
  LET c == CompanyOf(u)
      e == _get_current_employee_id(u)
  IN \/ /\ ActiveIds(c, e) = {}
        /\ Reject("break_end", u, 400, "Not currently on a break")
     \/ \E id \in ActiveIds(c, e) :
          LET ent == time_entries[id]
          IN \/ /\ ent.break_started_at = None
                /\ Reject("break_end", u, 400, "Not currently on a break")
             \/ /\ ent.break_started_at # None
                /\ Idle
                /\ time_entries' =
                     [time_entries EXCEPT ![id] = ApplySet(ent, break_end_set(ent, now))]
                /\ resp' = Response("break_end", u, StatusAfter(c, ent.job_id, e, "none"),
                                    "ok", id, None, NoneStr, "none")
                /\ UNCHANGED <<next_id, job_assignments, assignment_activity,
                               notifications, now, inflight, catalog>>

\* ---- clock-out / abandon ----

\* the handler's local copy of the entry after "end break" / "end pause"
ClosedBreakMinutes(ent, t) ==
  IF ent.break_started_at # None
    THEN ent.break_minutes + SpanMinutes(t, ent.break_started_at)
    ELSE ent.break_minutes

ClosedPausedMinutes(ent, t) ==
  IF ent.paused_started_at # None
    THEN ent.paused_minutes + SpanMinutes(t, ent.paused_started_at)
    ELSE ent.paused_minutes

\* clock_out: max(0, max(0, elapsed - break) - paused)
clock_out_duration(ent, t) ==
  Max0(Max0(FloorMinutes(t - ent.start_ts) - ClosedBreakMinutes(ent, t))
       - ClosedPausedMinutes(ent, t))

\* a $set that records the end of the entry and leaves it active
clock_out_set_active(ent, t) ==
  [end_ts |-> t,
   break_minutes |-> ClosedBreakMinutes(ent, t),
   duration_minutes |-> clock_out_duration(ent, t),
   break_started_at |-> None]

\* the $set of clock_out
clock_out_set(ent, t) ==
  [end_ts |-> t, is_active |-> FALSE,
   break_minutes |-> ClosedBreakMinutes(ent, t),
   duration_minutes |-> clock_out_duration(ent, t),
   break_started_at |-> None]

ClockOut(u) ==
  LET c == CompanyOf(u)
      e == _get_current_employee_id(u)
  IN \/ /\ ActiveIds(c, e) = {}
        /\ Reject("clock_out", u, 400, "No active time entry to clock out")
     \/ \E id \in ActiveIds(c, e), fail \in FailPoints :
          LET ent == time_entries[id]
              new == ApplySet(ent, clock_out_set(ent, now))
          IN /\ Idle /\ (fail = "none" => LogHasRoom)
             /\ time_entries' = [time_entries EXCEPT ![id] = new]
             /\ AfterWrite(c, ent.job_id, e, u, "done", "done", now, fail)
             /\ resp' = [Response("clock_out", u, StatusAfter(c, ent.job_id, e, fail),
                                  "ok", id, new.duration_minutes, NoneStr, fail)
                          EXCEPT !.body = AmountOut(c, ent.job_id, e, new.duration_minutes)]
             /\ UNCHANGED <<next_id, now, inflight, catalog>>

abandon_duration(ent, t) ==
  Max0(FloorMinutes(t - ent.start_ts) - ClosedBreakMinutes(ent, t)
       - ClosedPausedMinutes(ent, t))

\* the $set of abandon_job
abandon_set(ent, t, reason) ==
  [end_ts |-> t, is_active |-> FALSE,
   break_minutes |-> ClosedBreakMinutes(ent, t),
   paused_minutes |-> ClosedPausedMinutes(ent, t),
   duration_minutes |-> abandon_duration(ent, t),
   abandoned_reason |-> OrNone(reason)]

Abandon(u, reason) ==
  LET c == CompanyOf(u)
      e == _get_current_employee_id(u)
  IN \/ /\ ActiveIds(c, e) = {}
        /\ Reject("abandon", u, 400, "No active time entry to abandon")
     \/ \E id \in ActiveIds(c, e), fail \in FailPoints :
          LET ent == time_entries[id]
              new == ApplySet(ent, abandon_set(ent, now, reason))
          IN /\ Idle /\ (fail = "none" => LogHasRoom)
             /\ time_entries' = [time_entries EXCEPT ![id] = new]
             /\ AfterWrite(c, ent.job_id, e, u, "canceled", "abandoned", now, fail)
             /\ resp' = [Response("abandon", u, StatusAfter(c, ent.job_id, e, fail),
                                  "ok", id, new.duration_minutes, "abandoned", fail)
                          EXCEPT !.body = AmountOut(c, ent.job_id, e, new.duration_minutes)]
             /\ UNCHANGED <<next_id, now, inflight, catalog>>

\* ---- pause / resume ----

\* the $set of pause_job (the closed break stays in the handler's local copy)
pause_set(ent, t, reason, resume_at) ==
  [paused_started_at |-> t,
   pause_last_reason |-> OrNone(reason),
   planned_resume_at |-> resume_at]

Pause(u, reason, resume_at) ==
  LET c == CompanyOf(u)
      e == _get_current_employee_id(u)
  IN \/ /\ ActiveIds(c, e) = {}
        /\ Reject("pause", u, 400, "No active time entry to pause")
     \/ \E id \in ActiveIds(c, e) :
          LET ent == time_entries[id]
          IN \/ /\ ent.paused_started_at # None
                /\ Reject("pause", u, 400, "Job already paused")
             \/ \E fail \in FailPoints :
                  /\ ent.paused_started_at = None
                  /\ Idle /\ (fail = "none" => LogHasRoom)
                  /\ time_entries' =
                       [time_entries EXCEPT
                          ![id] = ApplySet(ent, pause_set(ent, now, reason, resume_at))]
                  /\ AfterWrite(c, ent.job_id, e, u, "paused", "paused", now, fail)
                  /\ resp' = Response("pause", u, StatusAfter(c, ent.job_id, e, fail),
                                      "ok", id, None, "paused", fail)
                  /\ UNCHANGED <<next_id, now, inflight, catalog>>

\* resume_job overwriting the committed pause minutes instead of adding to them
resume_set_overwrite(ent, t) ==
  [paused_minutes |-> SpanMinutes(t, ent.paused_started_at),
   paused_started_at |-> None,
   planned_resume_at |-> None]

\* the $set of resume_job
resume_set(ent, t) ==
  [paused_minutes |-> ent.paused_minutes + SpanMinutes(t, ent.paused_started_at),
   paused_started_at |-> None,
   planned_resume_at |-> None]

Resume(u) ==
  LET c == CompanyOf(u)
      e == _get_current_employee_id(u)
  IN \/ /\ ActiveIds(c, e) = {}
        /\ Reject("resume", u, 400, "No paused time entry to resume")
     \/ \E id \in ActiveIds(c, e) :
          LET ent == time_entries[id]
          IN \/ /\ ent.paused_started_at = None
                /\ Reject("resume", u, 400, "No paused time entry to resume")
             \/ \E fail \in FailPoints :
                  /\ ent.paused_started_at # None
                  /\ Idle /\ (fail = "none" => LogHasRoom)
                  /\ time_entries' =
                       [time_entries EXCEPT ![id] = ApplySet(ent, resume_set(ent, now))]
                  /\ AfterWrite(c, ent.job_id, e, u, "in_progress", "resumed", now, fail)
                  /\ resp' = Response("resume", u, StatusAfter(c, ent.job_id, e, fail),
                                      "ok", id, None, "active", fail)
                  /\ UNCHANGED <<next_id, now, inflight, catalog>>

\* ---- the transitions as two steps: read and checks, then update_one ----

Transitions == {"break_end", "pause", "resume", "clock_out", "abandon"}

\* the detail of the 400 a transition raises when find_one finds no active entry
NoEntryDetail(op) ==
  CASE op = "break_end" -> "Not currently on a break"
    [] op = "pause" -> "No active time entry to pause"
    [] op = "resume" -> "No paused time entry to resume"
    [] op = "clock_out" -> "No active time entry to clock out"
    [] op = "abandon" -> "No active time entry to abandon"

\* the detail of the 400 it raises on the entry it found; "" when it goes on
Refusal(op, ent) ==
  CASE op = "break_end" /\ ent.break_started_at = None -> "Not currently on a break"
    [] op = "pause" /\ ent.paused_started_at # None -> "Job already paused"
    [] op = "resume" /\ ent.paused_started_at = None -> "No paused time entry to resume"
    [] OTHER -> ""

\* the $set each handler builds from the entry it read and its own utcnow()
TransitionSet(op, ent, t, reason) ==
  CASE op = "break_end" -> break_end_set(ent, t)
    [] op = "pause" -> pause_set(ent, t, reason, None)
    [] op = "resume" -> resume_set(ent, t)
    [] op = "clock_out" -> clock_out_set(ent, t)
    [] op = "abandon" -> abandon_set(ent, t, reason)

\* the assignment state and the activity action of a transition's best-effort block
TransitionState(op) ==
  CASE op = "pause" -> "paused"
    [] op = "resume" -> "in_progress"
    [] op = "clock_out" -> "done"
    [] op = "abandon" -> "canceled"

TransitionAction(op) ==
  CASE op = "pause" -> "paused"
    [] op = "resume" -> "resumed"
    [] op = "clock_out" -> "done"
    [] op = "abandon" -> "abandoned"

\* a handler up to the await of its update_one: find_one with is_active, the
\* checks, utcnow() and the $set computed from the document read
TransitionBegin(u, op, reason) ==
  LET c == CompanyOf(u)
      e == _get_current_employee_id(u)
  IN \/ /\ ActiveIds(c, e) = {}
        /\ Reject(op, u, 400, NoEntryDetail(op))
     \/ \E id \in ActiveIds(c, e) :
          /\ Refusal(op, time_entries[id]) # ""
          /\ Reject(op, u, 400, Refusal(op, time_entries[id]))
     \/ \E id \in ActiveIds(c, e) :
          /\ Refusal(op, time_entries[id]) = ""
          /\ Idle
          /\ BagCardinality(inflight) < MaxInflight
          /\ inflight' = inflight (+)
               SetToBag({[op |-> op, user |-> u, id |-> id,
                          set |-> TransitionSet(op, time_entries[id], now, reason)]})
          /\ UNCHANGED <<db, now, resp>>

\* update_one({"_id": ent["_id"]}, {"$set": ...}), the re-read, the rate and the
\* best-effort block, for a request suspended since TransitionBegin
TransitionFinish(r) ==
  LET c == CompanyOf(r.user)
      e == _get_current_employee_id(r.user)
      new == ApplySet(time_entries[r.id], r.set)
  IN /\ BagIn(r, inflight)
     /\ Idle
     /\ inflight' = inflight (-) SetToBag({r})
     /\ time_entries' = [time_entries EXCEPT ![r.id] = new]
     /\ \/ /\ r.op = "break_end"
           /\ resp' = Response(r.op, r.user, StatusAfter(c, new.job_id, e, "none"),
                               "ok", r.id, new.duration_minutes, NoneStr, "none")
           /\ UNCHANGED <<job_assignments, assignment_activity, notifications>>
        \/ \E fail \in FailPoints :
             /\ r.op # "break_end"
             /\ fail = "none" => LogHasRoom
             /\ AfterWrite(c, new.job_id, e, r.user, TransitionState(r.op),
                           TransitionAction(r.op), now, fail)
             /\ resp' = Response(r.op, r.user, StatusAfter(c, new.job_id, e, fail),
                                 "ok", r.id, new.duration_minutes, NoneStr, fail)
     /\ UNCHANGED <<next_id, now, catalog>>

\* ---- assign / unassign (admin-like callers) ----

AssignFailPoints == {"none", "activity", "notification"}

NotificationDoc(user, action, j) ==
  [user_id |-> user, type |-> "job_assignment", action |-> action, job_id |-> j]

\* the activity record and the notification of assign_job / unassign_job, inside
\* one try block: a raise skips what follows it
AssignSideEffects(c, j, e, u, action, notified, fail) ==
  /\ assignment_activity' =
       IF fail = "activity" THEN assignment_activity
       ELSE assignment_activity (+) SetToBag({ActivityDoc(c, e, j, action, u)})
  /\ notifications' =
       IF fail = "none"
         THEN notifications (+) SetToBag({NotificationDoc(UserOfEmployee(e), notified, j)})
         ELSE notifications

\* an upsert that reports an insert whether or not the row exists
UpsertedAlways(c, j, e) == TRUE

\* result.upserted_id is not None: the upsert found no row and inserted one
Upserted(c, j, e) == <<c, j, e>> \notin DOMAIN job_assignments

\* a delete that reports a removed row whether or not there was one
DeletedAlways(c, j, e) == TRUE

\* res.deleted_count > 0: delete_one found the row
Deleted(c, j, e) == <<c, j, e>> \in DOMAIN job_assignments

AssignJob(u, j, e) ==
  LET c == CompanyOf(u)
  IN \/ /\ ~is_admin_like(RoleOf(u))
        /\ Reject("assign", u, 403, "Forbidden")
     \/ /\ is_admin_like(RoleOf(u))
        /\ ~JobExists(c, j)
        /\ Reject("assign", u, 404, "Job not found")
     \/ /\ is_admin_like(RoleOf(u))
        /\ JobExists(c, j)
        /\ ~Upserted(c, j, e)
        \* upsert of an existing row: only updated_at is set
        /\ Idle
        /\ resp' = Response("assign", u, 200, "ok", None, None, NoneStr, "none")
        /\ UNCHANGED <<db, now, inflight>>
     \/ \E fail \in AssignFailPoints :
          /\ is_admin_like(RoleOf(u))
          /\ JobExists(c, j)
          /\ Upserted(c, j, e)
          /\ Idle
          /\ fail # "activity" => LogHasRoom
          /\ job_assignments' =
               (<<c, j, e>> :> [state |-> "assigned", state_changed_at |-> now])
               @@ job_assignments
          /\ AssignSideEffects(c, j, e, u, "assigned", "assigned", fail)
          /\ resp' = Response("assign", u, IF ExceptPass(fail) THEN 500 ELSE 200,
                              "ok", None, None, NoneStr, fail)
          /\ UNCHANGED <<time_entries, next_id, now, inflight, catalog>>

UnassignJob(u, j, e) ==
  LET c == CompanyOf(u)
  IN \/ /\ ~is_admin_like(RoleOf(u))
        /\ Reject("unassign", u, 403, "Forbidden")
     \/ /\ is_admin_like(RoleOf(u))
        /\ ~Deleted(c, j, e)
        \* deleted_count = 0
        /\ Idle
        /\ resp' = Response("unassign", u, 200, "ok", None, None, NoneStr, "none")
        /\ UNCHANGED <<db, now, inflight>>
     \/ \E fail \in AssignFailPoints :
          /\ is_admin_like(RoleOf(u))
          /\ Deleted(c, j, e)
          /\ Idle
          /\ fail # "activity" => LogHasRoom
          /\ job_assignments' =
               [k \in DOMAIN job_assignments \ {<<c, j, e>>} |-> job_assignments[k]]
          /\ AssignSideEffects(c, j, e, u, "canceled", "unassigned", fail)
          /\ resp' = Response("unassign", u, IF ExceptPass(fail) THEN 500 ELSE 200,
                              "ok", None, None, NoneStr, fail)
          /\ UNCHANGED <<time_entries, next_id, now, inflight, catalog>>

\* ---- activity feed and its backfill (GET /assignments/activity) ----

\* find_one({company_id, employee_id, job_id, "action": "assigned"}) finds a record
HasAssignedRecord(k) ==
  \E d \in BagToSet(assignment_activity) :
    /\ d.company_id = k[1] /\ d.job_id = k[2] /\ d.employee_id = k[3]
    /\ d.action = "assigned"

\* the synthetic record of the backfill: actor_user_id is None
SyntheticDoc(k) == ActivityDoc(k[1], k[3], k[2], "assigned", NoneStr)

SyntheticCount ==
  LET doc == {d \in BagToSet(assignment_activity) : d.actor_user_id = NoneStr}
  IN BagCardinality([d \in doc |-> assignment_activity[d]])

\* a run of _backfill_assignment_activity between two of its awaits: todo are the
\* rows its cursor has yet to yield, pending the row it found without a record
BackfillRun(u, target, todo, pending) ==
  [kind |-> "backfill", user |-> u, employee |-> target, rows |-> todo,
   todo |-> todo, pending |-> pending]

\* the employee the feed is asked for: employee_id counts for admin-like callers
TargetEmployee(u, employee_id) ==
  IF employee_id # NoneStr /\ is_admin_like(RoleOf(u))
    THEN employee_id ELSE _get_current_employee_id(u)

\* my_assignment_activity up to the find() of the backfill
BackfillStart(u, employee_id) ==
  LET c == CompanyOf(u)
      target == TargetEmployee(u, employee_id)
      rows == {k \in DOMAIN job_assignments : k[1] = c /\ k[3] = target}
  IN /\ Idle
     /\ BagCardinality(inflight) < MaxInflight
     /\ inflight' = inflight (+) SetToBag({BackfillRun(u, target, rows, <<>>)})
     /\ UNCHANGED <<db, now, resp>>

\* the cursor yields row k and the run looks for its "assigned" record
BackfillCheck(r, k) ==
  /\ Idle
  /\ BagIn(r, inflight)
  /\ r.pending = <<>>
  /\ k \in r.todo
  /\ inflight' =
       (inflight (-) SetToBag({r}))
         (+) SetToBag({[r EXCEPT !.todo = r.todo \ {k},
                                 !.pending = IF HasAssignedRecord(k) THEN <<>> ELSE k]})
  /\ UNCHANGED <<db, now, resp>>

\* insert_one of the synthetic record of the pending row
BackfillInsert(r) ==
  /\ Idle
  /\ BagIn(r, inflight)
  /\ r.pending # <<>>
  /\ SyntheticCount < MaxSynthetic
  /\ assignment_activity' = assignment_activity (+) SetToBag({SyntheticDoc(r.pending)})
  /\ inflight' =
       (inflight (-) SetToBag({r})) (+) SetToBag({[r EXCEPT !.pending = <<>>]})
  /\ UNCHANGED <<catalog, time_entries, next_id, job_assignments, notifications,
                 now, resp>>

\* the cursor is exhausted: the handler lists the feed and answers
BackfillDone(r) ==
  /\ Idle
  /\ BagIn(r, inflight)
  /\ r.pending = <<>>
  /\ r.todo = {}
  /\ inflight' = inflight (-) SetToBag({r})
  /\ resp' = [Response("activity", r.user, 200, "ok", None, None, NoneStr, "none")
              EXCEPT !.body = [employee |-> r.employee, rows |-> r.rows]]
  /\ UNCHANGED <<db, now>>

\* ---- jobs and rates (PATCH /jobs/{job_id}, POST /jobs/{job_id}/rates) ----

\* update_job with a body that carries default_rate alone; a null passes the
\* schema, is not normalised and is stored
UpdateJob(u, j, default_rate) ==
  LET c == CompanyOf(u)
  IN \/ /\ ~is_admin_like(RoleOf(u))
        /\ RejectOn(j, "update_job", u, 403, "Forbidden")
     \/ /\ is_admin_like(RoleOf(u))
        /\ ~JobExists(c, j)
        \* matched_count = 0
        /\ RejectOn(j, "update_job", u, 404, "Job not found")
     \/ /\ is_admin_like(RoleOf(u))
        /\ JobExists(c, j)
        /\ Idle
        /\ jobs' = [jobs EXCEPT ![j] = ApplySet(jobs[j], [default_rate |-> default_rate])]
        \* float(j.get("default_rate", 0.0)) of the response raises on a null
        /\ resp' = ResponseOn(j, "update_job", u,
                              IF default_rate = None THEN 500 ELSE 200,
                              "ok", None, None, NoneStr, "none")
        /\ UNCHANGED <<job_rates, time_entries, next_id, job_assignments,
                       assignment_activity, notifications, now, inflight>>

\* set_job_rate: upsert of the override of (company, job, employee)
SetJobRate(u, j, e, rate) ==
  LET c == CompanyOf(u)
  IN \/ /\ ~is_admin_like(RoleOf(u))
        /\ RejectOn(j, "set_job_rate", u, 403, "Forbidden")
     \/ /\ is_admin_like(RoleOf(u))
        /\ ~JobExists(c, j)
        /\ RejectOn(j, "set_job_rate", u, 404, "Job not found")
     \/ /\ is_admin_like(RoleOf(u))
        /\ JobExists(c, j)
        /\ Idle
        /\ job_rates' =
             [k \in DOMAIN job_rates \cup {<<c, j, e>>} |->
                IF k = <<c, j, e>> THEN rate ELSE job_rates[k]]
        /\ resp' = ResponseOn(j, "set_job_rate", u, 200, "ok", None, None, NoneStr, "none")
        /\ UNCHANGED <<jobs, time_entries, next_id, job_assignments,
                       assignment_activity, notifications, now, inflight>>

\* ---- manual entries (POST /entries, PATCH and DELETE /entries/{entry_id}) ----

\* a field of ManualTimeEntryUpdate the request does not carry (exclude_unset)
Unset == 0 - 3

\* (x or 0)
Or0(x) == IF x = None THEN 0 ELSE x

\* the validation accepting an entry that ends when it starts
EndBeforeStart(start, end) == end < start

\* "if end <= start: raise ..." of manual create and edit
EndNotAfterStart(start, end) == end <= start

\* max(0, int((end - start).total_seconds() // 60) - break_m)
manual_duration(start, end, break_m) == Max0(FloorMinutes(end - start) - break_m)

\* the document create_manual_time_entry inserts
ManualDoc(c, e, j, start, end, brk) ==
  [company_id |-> c, employee_id |-> e, job_id |-> j,
   date |-> _start_of_day(start), start_ts |-> start, end_ts |-> end,
   break_minutes |-> Or0(brk),
   duration_minutes |-> manual_duration(start, end, Or0(brk)),
   is_active |-> FALSE, break_started_at |-> None, source |-> "manual"]

ManualIds == {i \in DOMAIN time_entries : time_entries[i].source = "manual"}

CreateManual(u, j, start, end, brk) ==
  LET c == CompanyOf(u)
      e == _get_current_employee_id(u)
      doc == ManualDoc(c, e, j, start, end, brk)
  IN \/ /\ ~JobExists(c, j)
        /\ RejectOn(j, "create_manual", u, 400, "Invalid job")
     \/ /\ JobExists(c, j)
        /\ EndNotAfterStart(start, end)
        /\ RejectOn(j, "create_manual", u, 400, "end_ts must be after start_ts")
     \/ /\ JobExists(c, j)
        /\ ~EndNotAfterStart(start, end)
        /\ Idle
        /\ Cardinality(ManualIds) < MaxManual
        /\ next_id <= MaxEntryId
        /\ time_entries' = (next_id :> doc) @@ time_entries
        /\ next_id' = next_id + 1
        /\ resp' = [ResponseOn(j, "create_manual", u,
                               IF _get_effective_rate(c, j, e) = TypeError
                                 THEN 500 ELSE 201,
                               "ok", next_id, doc.duration_minutes, NoneStr, "none")
                    EXCEPT !.body = AmountOut(c, j, e, doc.duration_minutes)]
        /\ UNCHANGED <<job_assignments, assignment_activity, notifications, now,
                       inflight, catalog>>

\* update.get(k, stored): the supplied value, null included, else the stored one
Merged(upd, ent, k) == IF upd[k] = Unset THEN ent[k] ELSE upd[k]

\* the $set of update_manual_time_entry: the supplied fields as supplied, then the
\* recomputed duration_minutes and date
manual_update_set(upd, ent) ==
  LET start == Merged(upd, ent, "start_ts")
      end == Merged(upd, ent, "end_ts")
      break_m == Or0(Merged(upd, ent, "break_minutes"))
  IN [k \in {f \in DOMAIN upd : upd[f] # Unset} |-> upd[k]]
     @@ [duration_minutes |-> manual_duration(start, end, break_m),
         date |-> _start_of_day(start)]

\* the same lookup by _id alone
FindAny(u, id) == {i \in DOMAIN time_entries : i = id}

\* the entry a request of caller u on id finds
FindOwn(u, id) ==
  {i \in DOMAIN time_entries :
     /\ i = id
     /\ time_entries[i].company_id = CompanyOf(u)
     /\ time_entries[i].employee_id = _get_current_employee_id(u)}

UpdateManual(u, id, upd) ==
  LET c == CompanyOf(u)
      e == _get_current_employee_id(u)
  IN \/ /\ FindOwn(u, id) = {}
        /\ Reject("update_manual", u, 404, "Time entry not found")
     \/ /\ FindOwn(u, id) # {}
        /\ time_entries[id].source # "manual"
        /\ Reject("update_manual", u, 400, "Only manual entries can be edited")
     \/ /\ FindOwn(u, id) # {}
        /\ time_entries[id].source = "manual"
        /\ LET ent == time_entries[id]
               start == Merged(upd, ent, "start_ts")
               end == Merged(upd, ent, "end_ts")
               new == ApplySet(ent, manual_update_set(upd, ent))
           IN \/ /\ (start = None \/ end = None)
                 \* "end <= start" on a null raises TypeError
                 /\ Reject("update_manual", u, 500, "Internal Server Error")
              \/ /\ start # None /\ end # None
                 /\ EndNotAfterStart(start, end)
                 /\ Reject("update_manual", u, 400, "end_ts must be after start_ts")
              \/ /\ start # None /\ end # None
                 /\ ~EndNotAfterStart(start, end)
                 /\ Idle
                 /\ time_entries' = [time_entries EXCEPT ![id] = new]
                 \* int(ent.get("break_minutes", 0)) of the response raises on a null
                 /\ resp' =
                      IF \/ _get_effective_rate(c, ent.job_id, e) = TypeError
                         \/ new.break_minutes = None
                        THEN Response("update_manual", u, 500, "Internal Server Error",
                                      id, None, NoneStr, "none")
                        ELSE [Response("update_manual", u, 200, "ok", id,
                                       new.duration_minutes, NoneStr, "none")
                              EXCEPT !.body =
                                AmountOut(c, ent.job_id, e, new.duration_minutes)]
                 /\ UNCHANGED <<next_id, job_assignments, assignment_activity,
                                notifications, now, inflight, catalog>>

DeleteEntry(u, id) ==
  \/ /\ FindOwn(u, id) = {}
     \* deleted_count = 0
     /\ Reject("delete", u, 404, "Time entry not found")
  \/ /\ FindOwn(u, id) # {}
     /\ Idle
     /\ time_entries' = [i \in DOMAIN time_entries \ {id} |-> time_entries[i]]
     /\ resp' = Response("delete", u, 200, "deleted", id, None, NoneStr, "none")
     /\ UNCHANGED <<next_id, job_assignments, assignment_activity, notifications,
                    now, inflight, catalog>>

\* ---- billing report (GET /reports/billing) ----

\* days of a non-leap year before the first of each month
DaysBeforeMonth == <<0, 31, 59, 90, 120, 151, 181, 212, 243, 273, 304, 334>>

\* datetime(year, mon, 1), for the non-leap years 1970 and 1971
FirstOfMonth(year, mon) ==
  ((year - EpochYear) * DaysPerYear + DaysBeforeMonth[mon]) * SecondsPerDay

\* the first of the month after (year, mon)
MonthEnd(year, mon) ==
  FirstOfMonth(year + (IF mon = 12 THEN 1 ELSE 0), IF mon = 12 THEN 1 ELSE mon + 1)

\* the range test with the end of the month included
DateInMonthInclusive(date, year, mon) ==
  /\ date >= _start_of_day(FirstOfMonth(year, mon))
  /\ date <= _start_of_day(MonthEnd(year, mon))

\* "date": {"$gte": _start_of_day(start), "$lt": _start_of_day(end)}
DateInMonth(date, year, mon) ==
  /\ date >= _start_of_day(FirstOfMonth(year, mon))
  /\ date < _start_of_day(MonthEnd(year, mon))

\* the $match stage: the company's entries of the month, of one job if asked
BillingMatch(c, year, mon, job_id) ==
  {i \in DOMAIN time_entries :
     /\ time_entries[i].company_id = c
     /\ DateInMonth(time_entries[i].date, year, mon)
     /\ (job_id # NoneStr => time_entries[i].job_id = job_id)}

\* {"$ifNull": [x, d]}
IfNull(x, d) == IF x = None THEN d ELSE x

RECURSIVE SumDuration(_)
SumDuration(ids) ==
  IF ids = {} THEN 0
  ELSE LET i == CHOOSE x \in ids : TRUE
       IN IfNull(time_entries[i].duration_minutes, 0) + SumDuration(ids \ {i})

\* the $group stage: one row per (job_id, employee_id) of the matched entries
BillingGroups(ids) ==
  {[job_id |-> g[1], employee_id |-> g[2],
    minutes |-> SumDuration({i \in ids : /\ time_entries[i].job_id = g[1]
                                         /\ time_entries[i].employee_id = g[2]})] :
     g \in {<<time_entries[i].job_id, time_entries[i].employee_id>> : i \in ids}}

\* a job total billed at once: round(total minutes / 60 * rate, 2)
AccumulateOnTotal(amount_so_far, minutes_total, amount, rate) ==
  Amount(minutes_total, rate)

\* round(results[key]["amount"] + amount, 2): a sum of hundredths
Accumulate(amount_so_far, minutes_total, amount, rate) == amount_so_far + amount

\* the loop over the aggregation rows (their order is the store's); results maps
\* job id to [minutes, amount, by_employee]
RECURSIVE Rollup(_, _, _)
Rollup(c, rows, results) ==
  IF rows = {} THEN results
  ELSE LET row == CHOOSE r \in rows : TRUE
           key == row.job_id
           rate == _get_effective_rate(c, row.job_id, row.employee_id)
           amount == Amount(row.minutes, rate)
           prev == IF key \in DOMAIN results THEN results[key]
                   ELSE [minutes |-> 0, amount |-> 0, by_employee |-> <<>>]
           upd == [minutes |-> prev.minutes + row.minutes,
                   amount |-> Accumulate(prev.amount, prev.minutes + row.minutes,
                                         amount, rate),
                   by_employee |->
                     Append(prev.by_employee,
                            [employee_id |-> row.employee_id, minutes |-> row.minutes,
                             rate |-> rate, amount |-> amount])]
       IN Rollup(c, rows \ {row}, (key :> upd) @@ results)

billing_report(c, year, mon, job_id) ==
  Rollup(c, BillingGroups(BillingMatch(c, year, mon, job_id)), <<>>)

\* the resolver raises for a row of the report
BillingRaises(c, year, mon, job_id) ==
  \E row \in BillingGroups(BillingMatch(c, year, mon, job_id)) :
    _get_effective_rate(c, row.job_id, row.employee_id) = TypeError

BillingReport(u, year, mon, job_id) ==
  LET c == CompanyOf(u)
  IN \/ /\ ~is_admin_like(RoleOf(u))
        /\ Reject("billing", u, 403, "Forbidden")
     \/ /\ is_admin_like(RoleOf(u))
        /\ mon \notin 1 .. 12
        \* datetime(year, mon, 1) raises ValueError
        /\ Reject("billing", u, 400, "Invalid month format")
     \/ /\ is_admin_like(RoleOf(u))
        /\ mon \in 1 .. 12
        /\ Idle
        /\ resp' =
             IF BillingRaises(c, year, mon, job_id)
               THEN Response("billing", u, 500, "Internal Server Error",
                             None, None, NoneStr, "none")
               ELSE [ResponseOn(job_id, "billing", u, 200, "ok", None, None, NoneStr, "none")
                     EXCEPT !.body = [year |-> year, mon |-> mon,
                                      jobs |-> billing_report(c, year, mon, job_id)]]
        /\ UNCHANGED <<db, now, inflight>>

\* ---- reads (GET /entries/me, GET /assignments/details) ----

\* doc.get(f, default)
Get(doc, f, default) == IF f \in DOMAIN doc THEN doc[f] ELSE default

\* the paused total of an active entry as of t: the committed minutes plus the
\* span of a pause that is open
PausedTotal(doc, t) ==
  Get(doc, "paused_minutes", 0)
  + (IF Get(doc, "paused_started_at", None) # None
       THEN SpanMinutes(t, doc.paused_started_at) ELSE 0)

\* elapsed minus the stored break and pause minutes of an entry with end_ts
FromTimestamps(doc) ==
  Max0(FloorMinutes(doc.end_ts - doc.start_ts) - Get(doc, "break_minutes", 0)
       - Get(doc, "paused_minutes", 0))

\* elapsed up to t minus the stored break minutes and the paused total
RunningDuration(doc, t) ==
  Max0(FloorMinutes(t - doc.start_ts) - Get(doc, "break_minutes", 0)
       - PausedTotal(doc, t))

\* dur of my_time_entries: the stored value when it is a positive int, else
\* computed from the timestamps
ListDuration(doc, t) ==
  IF Get(doc, "duration_minutes", None) # None /\ doc.duration_minutes > 0
    THEN doc.duration_minutes
  ELSE IF doc.end_ts # None THEN FromTimestamps(doc)
  ELSE IF doc.is_active THEN RunningDuration(doc, t)
  ELSE 0

\* dur of assignment_details
DetailsDuration(doc, t) ==
  IF Get(doc, "duration_minutes", None) = None /\ doc.end_ts # None
    THEN FromTimestamps(doc)
  ELSE IF doc.is_active THEN RunningDuration(doc, t)
  ELSE Or0(Get(doc, "duration_minutes", None))

\* "dur or None"
OrNull(x) == IF x = 0 THEN None ELSE x

\* one element of "items" / "entries"
EntryItem(id, doc, dur, rate) ==
  [id |-> id, job_id |-> doc.job_id, start_ts |-> doc.start_ts, end_ts |-> doc.end_ts,
   break_minutes |-> Get(doc, "break_minutes", 0),
   paused_minutes |-> Get(doc, "paused_minutes", 0),
   is_active |-> doc.is_active,
   on_break |-> Get(doc, "break_started_at", None) # None,
   on_pause |-> Get(doc, "paused_started_at", None) # None,
   state |-> IF doc.end_ts # None /\ Get(doc, "abandoned_reason", NoneStr) # NoneStr
               THEN "abandoned"
             ELSE IF doc.end_ts # None THEN "completed"
             ELSE IF Get(doc, "paused_started_at", None) # None THEN "paused"
             ELSE "active",
   duration_minutes |-> OrNull(dur),
   rate |-> rate,
   amount |-> IF dur # 0 THEN Amount(dur, rate) ELSE 0]

\* the ids in cursor order: sort(key, dir), ties in _id order
RECURSIVE Sorted(_, _, _)
Sorted(ids, key, dir) ==
  IF ids = {} THEN <<>>
  ELSE LET first == CHOOSE i \in ids :
                      \A k \in ids :
                        \/ dir * time_entries[i][key] < dir * time_entries[k][key]
                        \/ time_entries[i][key] = time_entries[k][key] /\ i <= k
       IN <<first>> \o Sorted(ids \ {first}, key, dir)

\* int(None) or the rate resolver raises while the rows are built
ReadRaises(ids) ==
  \E i \in ids :
    \/ Get(time_entries[i], "break_minutes", 0) = None
    \/ _get_effective_rate(time_entries[i].company_id, time_entries[i].job_id,
                           time_entries[i].employee_id) = TypeError

\* the first page of the caller's entries, newest date first
my_time_entries(u, job_id) ==
  LET c == CompanyOf(u)
      e == _get_current_employee_id(u)
      ids == {i \in EntryIdsOf(c, e) : job_id # NoneStr => time_entries[i].job_id = job_id}
      order == Sorted(ids, "date", 0 - 1)
  IN [k \in 1 .. Len(order) |->
        EntryItem(order[k], time_entries[order[k]],
                  ListDuration(time_entries[order[k]], now),
                  _get_effective_rate(c, time_entries[order[k]].job_id, e))]

MyTimeEntries(u, job_id) ==
  LET c == CompanyOf(u)
      e == _get_current_employee_id(u)
      ids == {i \in EntryIdsOf(c, e) : job_id # NoneStr => time_entries[i].job_id = job_id}
  IN /\ Idle
     /\ resp' =
          IF ReadRaises(ids)
            THEN ResponseOn(job_id, "list", u, 500, "Internal Server Error",
                            None, None, NoneStr, "none")
            ELSE [ResponseOn(job_id, "list", u, 200, "ok", None, None, NoneStr, "none")
                  EXCEPT !.body = [at |-> now, items |-> my_time_entries(u, job_id)]]
     /\ UNCHANGED <<db, now, inflight>>

RECURSIVE SumField(_, _)
SumField(items, f) ==
  IF items = <<>> THEN 0 ELSE Head(items)[f] + SumField(Tail(items), f)

\* the entries of (employee, job) in start order, with their totals
assignment_details(c, employee_id, job_id) ==
  LET ids == {i \in EntryIdsOf(c, employee_id) : time_entries[i].job_id = job_id}
      order == Sorted(ids, "start_ts", 1)
      entries == [k \in 1 .. Len(order) |->
                    EntryItem(order[k], time_entries[order[k]],
                              DetailsDuration(time_entries[order[k]], now),
                              _get_effective_rate(c, job_id, employee_id))]
  IN [at |-> now,
      employee_id |-> employee_id,
      state |-> IF <<c, job_id, employee_id>> \in DOMAIN job_assignments
                  THEN job_assignments[<<c, job_id, employee_id>>].state
                  ELSE "assigned",
      entries |-> entries,
      totals |-> [entries |-> Len(entries),
                  minutes |-> SumField([k \in 1 .. Len(entries) |->
                                          [minutes |-> Or0(entries[k].duration_minutes)]],
                                       "minutes"),
                  break_minutes |-> SumField(entries, "break_minutes"),
                  paused_minutes |-> SumField(entries, "paused_minutes"),
                  amount |-> SumField(entries, "amount")]]

AssignmentDetails(u, employee_id, job_id) ==
  LET c == CompanyOf(u)
      ids == {i \in EntryIdsOf(c, employee_id) : time_entries[i].job_id = job_id}
  IN \/ /\ ~is_admin_like(RoleOf(u))
        /\ RejectOn(job_id, "details", u, 403, "Forbidden")
     \/ /\ is_admin_like(RoleOf(u))
        /\ Idle
        /\ resp' =
             IF ReadRaises(ids)
               THEN ResponseOn(job_id, "details", u, 500, "Internal Server Error",
                               None, None, NoneStr, "none")
               ELSE [ResponseOn(job_id, "details", u, 200, "ok", None, None, NoneStr, "none")
                     EXCEPT !.body = assignment_details(c, employee_id, job_id)]
        /\ UNCHANGED <<db, now, inflight>>

\* ---- specifications ----

\* the callers that track time, and the employees an admin assigns
Workers == {"u1"}
Assignees == {"e1"}
PauseReasons == {"sick"}
ResumeAts == {now + SecondsPerMinute}

\* every request runs alone, from its first read to its response
Next ==
  \/ Tick
  \/ Respond
  \/ \E u \in Workers, j \in JobIds : ClockIn(u, j)
  \/ \E u \in Workers : BreakStart(u)
  \/ \E u \in Workers : BreakEnd(u)
  \/ \E u \in Workers : ClockOut(u)
  \/ \E u \in Workers, reason \in PauseReasons, resume_at \in ResumeAts :
       Pause(u, reason, resume_at)
  \/ \E u \in Workers : Resume(u)
  \/ \E u \in Workers, reason \in Reasons : Abandon(u, reason)
  \/ \E u \in Users, j \in JobIds, e \in Assignees : AssignJob(u, j, e)
  \/ \E u \in Users, j \in JobIds, e \in Assignees : UnassignJob(u, j, e)

Spec == Init /\ [][Next]_vars

\* several callers clock in and out of a job whose assignments an admin changes,
\* all within one tick of the clock
InitGate == InitOn(InitialJobs, <<>>)

NextGate ==
  \/ Respond
  \/ \E u \in Users, j \in JobIds : ClockIn(u, j)
  \/ \E u \in Users : ClockOut(u)
  \/ \E u \in Users, j \in JobIds, e \in Employees : AssignJob(u, j, e)
  \/ \E u \in Users, j \in JobIds, e \in Employees : UnassignJob(u, j, e)

SpecGate == InitGate /\ [][NextGate]_vars

\* clock-in requests may interleave between their reads and their insert
NextConc ==
  \/ Tick
  \/ Respond
  \/ \E u \in Workers, j \in JobIds : ClockInBegin(u, j)
  \/ \E r \in BagToSet(inflight) : ClockInFinish(r)
  \/ \E u \in Workers : ClockOut(u)

SpecConc == Init /\ [][NextConc]_vars

\* an employee tracks a session; the employee lists the entries and an admin
\* audits the assignment at any moment
NextRead ==
  \/ Tick
  \/ Respond
  \/ \E u \in Workers, j \in JobIds : ClockIn(u, j)
  \/ \E u \in Workers : BreakStart(u)
  \/ \E u \in Workers : BreakEnd(u)
  \/ \E u \in Workers, reason \in PauseReasons : Pause(u, reason, None)
  \/ \E u \in Workers : Resume(u)
  \/ \E u \in Workers : ClockOut(u)
  \/ \E u \in Workers : Abandon(u, "sick")
  \/ \E u \in Workers : MyTimeEntries(u, NoneStr)
  \/ \E u \in Users, e \in Assignees : AssignmentDetails(u, e, "j1")

SpecRead == Init /\ [][NextRead]_vars

\* the transitions of one employee overlap: each may read the entry before
\* another's update_one and write after it; a manual edit is aimed at the entry
OverlapEdits == {[start_ts |-> Unset, end_ts |-> Unset, break_minutes |-> 10]}

NextOverlap ==
  \/ Tick
  \/ Respond
  \/ \E u \in Workers, j \in JobIds : ClockIn(u, j)
  \/ \E u \in Workers : BreakStart(u)
  \/ \E u \in Workers, op \in Transitions : TransitionBegin(u, op, "sick")
  \/ \E r \in BagToSet(inflight) : TransitionFinish(r)
  \/ \E u \in Workers, id \in DOMAIN time_entries, upd \in OverlapEdits :
       time_entries[id].source = "clock" /\ UpdateManual(u, id, upd)

SpecOverlap == Init /\ [][NextOverlap]_vars

\* an employee tracks sessions while an admin changes the job's default rate and
\* the employee's override; requests arrive at the instants below (minutes)
OverrideRates == {15}
DefaultRates == {None, 20}
Instants == {90, 115, 125}

\* the clock advances to a later instant between requests
Elapse(m) ==
  /\ Idle
  /\ now < m * SecondsPerMinute
  /\ now' = m * SecondsPerMinute
  /\ UNCHANGED <<db, resp, inflight>>

NextRate ==
  \/ Respond
  \/ \E m \in Instants : Elapse(m)
  \/ \E u \in Workers, j \in JobIds : ClockIn(u, j)
  \/ \E u \in Workers : BreakStart(u)
  \/ \E u \in Workers : BreakEnd(u)
  \/ \E u \in Workers : ClockOut(u)
  \/ \E u \in Workers : Abandon(u, "sick")
  \/ \E u \in Users, j \in JobIds, r \in DefaultRates : UpdateJob(u, j, r)
  \/ \E u \in Users, j \in JobIds, e \in Assignees, r \in OverrideRates :
       SetJobRate(u, j, e, r)

SpecRate == Init /\ [][NextRate]_vars

\* feed requests overlap each other and assign calls; the row of LegacyAssigned was
\* created before activity logging existed
LegacyAssigned ==
  <<"c1", "j1", "e1">> :> [state |-> "assigned", state_changed_at |-> 0]

InitBackfill == \E ja \in {<<>>, LegacyAssigned} : InitOn(InitialJobs, ja)

NextBackfill ==
  \/ Respond
  \/ \E u \in Users, j \in JobIds, e \in Assignees : AssignJob(u, j, e)
  \/ \E u \in Users, employee_id \in {NoneStr, "e1"} : BackfillStart(u, employee_id)
  \/ \E r \in BagToSet(inflight) : \E k \in r.todo : BackfillCheck(r, k)
  \/ \E r \in BagToSet(inflight) : BackfillInsert(r)
  \/ \E r \in BagToSet(inflight) : BackfillDone(r)

SpecBackfill == InitBackfill /\ [][NextBackfill]_vars

\* employees of two companies keep manual entries next to a clocked one
OtherCompanyJobs == "j2" :> JobDoc("c2", 10)

InitManual == InitOn(InitialJobs @@ OtherCompanyJobs, <<>>)

ManualCallers == {"u1", "u2", "u3"}
ManualJobIds == {"j1", "j2"}
ManualT0 == 0
ManualT1 == SecondsPerDay + 2 * SecondsPerMinute
ManualT2 == SecondsPerDay + 7 * SecondsPerMinute
ManualStarts == {ManualT0, ManualT1}
ManualEnds == {ManualT1, ManualT2}
ManualBreaks == {0, 10}
EntryIds == 1 .. MaxEntryId

ManualUpdates ==
  [start_ts : {Unset, None, ManualT1},
   end_ts : {Unset, ManualT0, ManualT2},
   break_minutes : {Unset, None, 10}]

NextManual ==
  \/ Respond
  \/ \E u \in Workers : next_id <= MaxEntryId /\ ClockIn(u, "j1")
  \/ \E u \in Workers : ClockOut(u)
  \/ \E u \in ManualCallers, j \in ManualJobIds, start \in ManualStarts,
        end \in ManualEnds, brk \in ManualBreaks :
       CreateManual(u, j, start, end, brk)
  \/ \E u \in ManualCallers, id \in EntryIds, upd \in ManualUpdates :
       UpdateManual(u, id, upd)
  \/ \E u \in ManualCallers, id \in EntryIds : DeleteEntry(u, id)

SpecManual == InitManual /\ [][NextManual]_vars

\* entries around the turn of two months, of two employees of one company and one
\* of another, and the reports an admin asks for
Jan31Late == 30 * SecondsPerDay + 23 * 60 * SecondsPerMinute
Feb1Early == 31 * SecondsPerDay + 30 * SecondsPerMinute
Dec31Late == 364 * SecondsPerDay + 23 * 60 * SecondsPerMinute
BillingStarts == {Jan31Late, Feb1Early, Dec31Late}
BillingSpans == {0, 5 * SecondsPerMinute}
BillingMonths == {<<1970, 1>>, <<1970, 2>>, <<1970, 12>>, <<1970, 13>>}

NextBilling ==
  \/ Respond
  \/ \E u \in Workers : next_id <= MaxEntryId /\ ClockIn(u, "j1")
  \/ \E u \in ManualCallers, j \in ManualJobIds, start \in BillingStarts,
         span \in BillingSpans :
       CreateManual(u, j, start, start + span, 0)
  \/ \E u \in Users, j \in ManualJobIds, e \in Assignees, r \in OverrideRates :
       SetJobRate(u, j, e, r)
  \/ \E u \in Users, m \in BillingMonths, j \in {NoneStr, "j1"} :
       BillingReport(u, m[1], m[2], j)

SpecBilling == InitManual /\ [][NextBilling]_vars

\* an employee works sessions on a job and deletes entries while an admin assigns
\* and unassigns the employee
NextLifecycle ==
  \/ Respond
  \/ \E u \in Workers, j \in JobIds : next_id <= MaxEntryId /\ ClockIn(u, j)
  \/ \E u \in Workers, reason \in PauseReasons : Pause(u, reason, None)
  \/ \E u \in Workers : Resume(u)
  \/ \E u \in Workers : ClockOut(u)
  \/ \E u \in Workers : Abandon(u, "sick")
  \/ \E u \in Workers, id \in EntryIds : DeleteEntry(u, id)
  \/ \E u \in Users, j \in JobIds, e \in Assignees : AssignJob(u, j, e)
  \/ \E u \in Users, j \in JobIds, e \in Assignees : UnassignJob(u, j, e)

SpecLifecycle == Init /\ [][NextLifecycle]_vars

\* an employee works sessions through every sub-state and deletes entries; the
\* employee keeps asking to clock out, and every response is delivered
NextLive ==
  \/ Respond
  \/ \E u \in Workers, j \in JobIds : next_id <= MaxEntryId /\ ClockIn(u, j)
  \/ \E u \in Workers : BreakStart(u)
  \/ \E u \in Workers : BreakEnd(u)
  \/ \E u \in Workers, reason \in PauseReasons : Pause(u, reason, None)
  \/ \E u \in Workers : Resume(u)
  \/ \E u \in Workers : ClockOut(u)
  \/ \E u \in Workers : Abandon(u, "sick")
  \/ \E u \in Workers, id \in EntryIds : DeleteEntry(u, id)

SpecLive ==
  /\ Init
  /\ [][NextLive]_vars
  /\ WF_vars(Respond)
  /\ \A u \in Workers : SF_vars(ClockOut(u))

\* ======================= properties =======================

\* the open entries of a caller, read off the stored documents
OpenOf(u) ==
  {i \in DOMAIN time_entries :
     /\ time_entries[i].company_id = CompanyOf(u)
     /\ time_entries[i].employee_id = _get_current_employee_id(u)
     /\ time_entries[i].is_active = TRUE}

\* this step is the handler of a request op by caller u
Handles(op, u) == Idle /\ resp'.op = op /\ resp'.user = u

AllCallers == Users

\* C1: each (company, employee) has at most one entry with is_active = true, also
\* when two clock-in requests of one employee interleave between read and insert
C1_AtMostOneActive ==
  \A u \in AllCallers : Cardinality(OpenOf(u)) <= 1

\* C2: a clock-in of an employee who has an active entry is rejected and leaves
\* the time entries, the assignments and the activity log as they were
C2_SecondClockInRejected ==
  [][\A u \in AllCallers :
       (Handles("clock_in", u) /\ OpenOf(u) # {})
         => /\ resp'.code = 400
            /\ time_entries' = time_entries
            /\ job_assignments' = job_assignments
            /\ assignment_activity' = assignment_activity]_vars

\* a second clock-in was rejected while the employee had an active entry, an
\* assignment row and a logged activity
C2_Witness ==
  /\ resp.op = "clock_in" /\ resp.code = 400
  /\ resp.detail = "You already have an active time entry"
  /\ OpenOf(resp.user) # {}
  /\ <<"c1", "j1", _get_current_employee_id(resp.user)>> \in DOMAIN job_assignments
  /\ assignment_activity # EmptyBag

\* C3: no stored entry has break_started_at and paused_started_at both set
C3_NeverOnBreakAndPaused ==
  \A i \in DOMAIN time_entries :
    ~(time_entries[i].break_started_at # None /\ time_entries[i].paused_started_at # None)

\* C4: a pause of an entry that is on break stores break_started_at = null,
\* break_minutes increased by the floor-minutes of the break, paused_started_at = now
C4_PauseClosesBreak ==
  [][\A u \in AllCallers :
       (Handles("pause", u) /\ resp'.code = 200
        /\ time_entries[resp'.entry_id].break_started_at # None)
         => LET old == time_entries[resp'.entry_id]
                new == time_entries'[resp'.entry_id]
            IN /\ new.break_started_at = None
               /\ new.break_minutes =
                    old.break_minutes + Max0((now - old.break_started_at) \div 60)
               /\ new.paused_started_at = now]_vars

\* C5: every closed clock entry stores
\* duration_minutes = max(0, floor-minutes(end_ts - start_ts) - break_minutes - paused_minutes)
C5_StoredDuration ==
  \A i \in DOMAIN time_entries :
    LET t == time_entries[i]
    IN (t.source = "clock" /\ t.end_ts # None)
         => /\ t.duration_minutes >= 0
            /\ t.duration_minutes =
                 Max0(((t.end_ts - t.start_ts) \div 60) - t.break_minutes - t.paused_minutes)

\* C6: resume of a paused entry adds floor-minutes(now - paused_started_at) to
\* paused_minutes and clears paused_started_at and planned_resume_at; a resume of an
\* entry that is not paused is rejected and changes nothing
C6_Resume ==
  [][\A u \in AllCallers :
       Handles("resume", u) =>
         /\ \A i \in OpenOf(u) :
              time_entries[i].paused_started_at # None =>
                /\ resp'.code = 200
                /\ time_entries'[i].paused_minutes =
                     time_entries[i].paused_minutes
                       + Max0((now - time_entries[i].paused_started_at) \div 60)
                /\ time_entries'[i].paused_started_at = None
                /\ time_entries'[i].planned_resume_at = None
         /\ (\A i \in OpenOf(u) : time_entries[i].paused_started_at = None)
              => /\ resp'.code = 400
                 /\ UNCHANGED <<time_entries, job_assignments, assignment_activity>>]_vars

\* a resume was rejected on an open entry that an earlier resume had credited
\* with at least one paused minute
C6_Witness ==
  /\ resp.op = "resume" /\ resp.code = 400
  /\ \E i \in OpenOf(resp.user) :
       /\ time_entries[i].paused_minutes >= 1
       /\ time_entries[i].paused_started_at = None

\* the calls that do not fit the state of the caller's entry
C7_Mismatch(u) ==
  LET none == OpenOf(u) = {}
      on_break == \E i \in OpenOf(u) : time_entries[i].break_started_at # None
      paused == \E i \in OpenOf(u) : time_entries[i].paused_started_at # None
  IN \/ /\ none
        /\ \E op \in {"break_start", "break_end", "pause", "resume", "clock_out", "abandon"} :
             Handles(op, u)
     \/ Handles("break_start", u) /\ (on_break \/ paused)
     \/ Handles("break_end", u) /\ ~on_break
     \/ Handles("pause", u) /\ paused
     \/ Handles("resume", u) /\ ~paused

\* C7: a call that does not fit the entry's state is rejected with the time
\* entries, the assignments and the activity log unchanged
C7_MismatchRejected ==
  [][\A u \in AllCallers :
       C7_Mismatch(u)
         => /\ resp'.code = 400
            /\ UNCHANGED <<time_entries, job_assignments, assignment_activity>>]_vars

\* a clock-out was retried after the caller's entry had been closed
C7_Witness ==
  /\ resp.op = "clock_out" /\ resp.code = 400
  /\ \E i \in DOMAIN time_entries :
       /\ time_entries[i].employee_id = _get_current_employee_id(resp.user)
       /\ time_entries[i].end_ts # None
       /\ time_entries[i].is_active = FALSE

\* the time-entry write of a transition op on entry id
C8_PrimaryWrite(op, old, new, id) ==
  CASE op = "clock_in" -> id \notin DOMAIN old /\ id \in DOMAIN new /\ new[id].is_active
    [] op = "pause" -> new[id].paused_started_at = now
    [] op = "resume" -> old[id].paused_started_at # None /\ new[id].paused_started_at = None
    [] OTHER -> new[id].is_active = FALSE /\ new[id].end_ts = now

\* C8: when the assignment update or the activity insert of clock-in, pause, resume,
\* clock-out or abandon fails, the time-entry write is committed and the request
\* succeeds
C8_SideEffectFailureSwallowed ==
  [][(/\ Idle
      /\ resp'.op \in {"clock_in", "pause", "resume", "clock_out", "abandon"}
      /\ resp'.fail # "none")
       => /\ resp'.code = 200
          /\ C8_PrimaryWrite(resp'.op, time_entries, time_entries', resp'.entry_id)]_vars

\* a clock-out succeeded although its assignment update raised
C8_Witness ==
  /\ resp.op = "clock_out" /\ resp.code = 200 /\ resp.fail = "assign"
  /\ time_entries[resp.entry_id].end_ts = now

\* C9: every entry closed by abandon has abandoned_reason set and derives state
\* "abandoned"
C9_AbandonDerivesAbandoned ==
  (resp.op = "abandon" /\ resp.code = 200)
    => /\ time_entries[resp.entry_id].abandoned_reason # NoneStr
       /\ DerivedState(time_entries[resp.entry_id]) = "abandoned"

\* the state of the assignment gate before a clock-in of u on job j
C10_Gated(u, j) ==
  /\ RoleOf(u) \notin {"admin", "manager", "hr"}
  /\ \E k \in DOMAIN job_assignments : k[1] = CompanyOf(u) /\ k[2] = j
  /\ <<CompanyOf(u), j, _get_current_employee_id(u)>> \notin DOMAIN job_assignments

C10_OnJob(u, j) == Handles("clock_in", u) /\ resp'.job_id = j

C11_Own(u, id) ==
  /\ id \in DOMAIN time_entries
  /\ time_entries[id].company_id = CompanyOf(u)
  /\ time_entries[id].employee_id = _get_current_employee_id(u)

\* the value an edit gives a field: the supplied one, else the stored one
C11_Merge(upd, id, k) == IF upd[k] = Unset THEN time_entries[id][k] ELSE upd[k]

\* C11: a manual create with end_ts <= start_ts, and a manual edit whose merged
\* fields give end_ts <= start_ts, is rejected with a validation error and creates
\* or modifies no time entry
C11_EndAfterStart ==
  [][/\ \A u \in ManualCallers, j \in ManualJobIds, start \in ManualStarts,
          end \in ManualEnds, brk \in ManualBreaks :
          (/\ Handles("create_manual", u)
           /\ end <= start
           /\ CreateManual(u, j, start, end, brk))
            => resp'.code = 400 /\ time_entries' = time_entries
     /\ \A u \in ManualCallers, id \in EntryIds, upd \in ManualUpdates :
          (/\ Handles("update_manual", u)
           /\ C11_Own(u, id)
           /\ time_entries[id].source = "manual"
           /\ C11_Merge(upd, id, "start_ts") # None
           /\ C11_Merge(upd, id, "end_ts") <= C11_Merge(upd, id, "start_ts")
           /\ UpdateManual(u, id, upd))
            => resp'.code = 400 /\ time_entries' = time_entries]_vars

\* an edit of a stored manual entry was refused because of its merged end
C11_Witness ==
  /\ resp.op = "update_manual" /\ resp.code = 400
  /\ resp.detail = "end_ts must be after start_ts"
  /\ \E i \in DOMAIN time_entries :
       /\ time_entries[i].source = "manual"
       /\ time_entries[i].employee_id = _get_current_employee_id(resp.user)
       /\ time_entries[i].end_ts > time_entries[i].start_ts

\* C12: an edit of a source = clock entry fails and leaves the entry unchanged; an
\* edit of a source = manual entry that succeeds in writing stores
\* duration_minutes = max(0, floor-minutes(end - start) - break_minutes) and
\* date = start-of-day(start) of the entry's merged fields
C12_ManualEdit ==
  [][\A u \in ManualCallers, id \in EntryIds, upd \in ManualUpdates :
       (Handles("update_manual", u) /\ C11_Own(u, id) /\ UpdateManual(u, id, upd))
         => IF time_entries[id].source = "clock"
              THEN resp'.code = 400 /\ time_entries' = time_entries
              ELSE time_entries'[id] # time_entries[id]
                     => LET new == time_entries'[id]
                        IN /\ new.break_minutes >= 0
                           /\ new.duration_minutes =
                                Max0(((new.end_ts - new.start_ts) \div 60)
                                     - new.break_minutes)
                           /\ new.date = (new.start_ts \div 86400) * 86400]_vars

\* C13: a delete by caller u of entry id removes that entry, and nothing else, if
\* and only if the entry is u's own in u's company; otherwise it answers NotFound
\* and removes nothing
C13_DeleteOwnOnly ==
  [][\A u \in ManualCallers, id \in EntryIds :
       (Handles("delete", u) /\ DeleteEntry(u, id))
         => IF C11_Own(u, id)
              THEN /\ resp'.code = 200
                   /\ DOMAIN time_entries' = DOMAIN time_entries \ {id}
                   /\ \A i \in DOMAIN time_entries' : time_entries'[i] = time_entries[i]
              ELSE /\ resp'.code = 404
                   /\ time_entries' = time_entries]_vars

\* a caller was answered NotFound while the only stored entries were those of an
\* employee of another company and of a colleague
C13_Witness ==
  /\ resp.op = "delete" /\ resp.code = 404 /\ resp.user = "u1"
  /\ \E i \in DOMAIN time_entries : time_entries[i].company_id = "c2"
  /\ \E i \in DOMAIN time_entries : time_entries[i].employee_id = "e2"
  /\ next_id > MaxEntryId

\* the rate the resolver is to give (company, job, employee)
C14_Expected(c, j, e) ==
  IF <<c, j, e>> \in DOMAIN job_rates THEN job_rates[<<c, j, e>>]
  ELSE IF j \in DOMAIN jobs /\ jobs[j].company_id = c THEN jobs[j].default_rate
  ELSE 0

\* C14: for every (company, job, employee) the resolver raises no error and gives
\* the override of the exact tuple, else the job's default_rate (a number) when the
\* job exists in the company, else 0
C14_ResolvedRate ==
  \A c \in {"c1", "c2"}, j \in JobIds, e \in Employees :
    /\ _get_effective_rate(c, j, e) # TypeError
    /\ _get_effective_rate(c, j, e) >= 0
    /\ _get_effective_rate(c, j, e) = C14_Expected(c, j, e)

\* C19: the amount clock-out and abandon return is round(duration_minutes / 60 *
\* resolved rate, 2) of the stored duration_minutes: 22.5 for 90 minutes at rate 15,
\* 0.0 for 0 minutes, and 115 minutes and 19.17 for an entry on a job of default
\* rate 10 closed 125 minutes after clock-in with a committed break of 10 minutes
C19_Amount ==
  [][\A u \in AllCallers :
       (/\ Handles("clock_out", u) \/ Handles("abandon", u)
        /\ resp'.code = 200)
         => LET ent == time_entries'[resp'.entry_id]
                dur == ent.duration_minutes
                rate == C14_Expected(ent.company_id, ent.job_id, ent.employee_id)
                amt == resp'.body.amount
            IN /\ resp'.duration_minutes = dur
               /\ resp'.body.rate = rate
               \* amt is the multiple of 0.01 nearest to dur / 60 * rate
               /\ 2 * (amt * 60 - dur * rate * 100) <= 60
               /\ 2 * (dur * rate * 100 - amt * 60) <= 60
               /\ (rate = 15 /\ dur = 90) => amt = 2250
               /\ dur = 0 => amt = 0
               /\ (/\ rate = 10
                   /\ ent.end_ts - ent.start_ts = 125 * 60
                   /\ ent.break_minutes = 10
                   /\ time_entries[resp'.entry_id].paused_started_at = -1
                   /\ ent.paused_minutes = 0)
                    => dur = 115 /\ amt = 1917]_vars

\* a clock-out 125 minutes after clock-in, with a committed break of 10 minutes and
\* the job's default rate 10, returned 115 minutes and 19.17
C19_Witness ==
  /\ resp.op = "clock_out" /\ resp.code = 200
  /\ resp.duration_minutes = 115
  /\ resp.body = [rate |-> 10, amount |-> 1917]
  /\ time_entries[resp.entry_id].break_minutes = 10
  /\ time_entries[resp.entry_id].end_ts - time_entries[resp.entry_id].start_ts = 7500

\* the activity records of (company, job, employee) with the given action
C15_Records(log, c, j, e, action) ==
  LET hits == {d \in BagToSet(log) :
                 /\ d.company_id = c /\ d.job_id = j
                 /\ d.employee_id = e /\ d.action = action}
  IN BagCardinality([d \in hits |-> log[d]])

C17_BackfillIdempotent ==
  [][/\ (Idle /\ resp'.op = "activity")
         => \A k \in resp'.body.rows :
              C15_Records(assignment_activity', k[1], k[2], k[3], "assigned") >= 1
     /\ \A k \in DOMAIN job_assignments :
          (/\ assignment_activity' # assignment_activity
           /\ assignment_activity' = assignment_activity (+) SetToBag({SyntheticDoc(k)}))
            => C15_Records(assignment_activity, k[1], k[2], k[3], "assigned") = 0]_vars

\* the days (since 1 January 1970) of the months reported on: first day of the
\* month, first day of the next
C18_FirstDay(year, mon) ==
  CASE <<year, mon>> = <<1970, 1>> -> 0
    [] <<year, mon>> = <<1970, 2>> -> 31
    [] <<year, mon>> = <<1970, 12>> -> 334

C18_NextMonthFirstDay(year, mon) ==
  CASE <<year, mon>> = <<1970, 1>> -> 31
    [] <<year, mon>> = <<1970, 2>> -> 59
    [] <<year, mon>> = <<1970, 12>> -> 365

\* entry i is one of company c on job j by employee e, dated within the month
C18_Counted(i, c, year, mon, j, e) ==
  /\ i \in DOMAIN time_entries
  /\ time_entries[i].company_id = c
  /\ time_entries[i].job_id = j
  /\ time_entries[i].employee_id = e
  /\ time_entries[i].date \div SecondsPerDay >= C18_FirstDay(year, mon)
  /\ time_entries[i].date \div SecondsPerDay < C18_NextMonthFirstDay(year, mon)

\* the minutes of entries 1 .. n counted for (j, e), an open entry counting 0
RECURSIVE C18_Minutes(_, _, _, _, _, _)
C18_Minutes(n, c, year, mon, j, e) ==
  IF n = 0 THEN 0
  ELSE C18_Minutes(n - 1, c, year, mon, j, e)
       + (IF /\ C18_Counted(n, c, year, mon, j, e)
             /\ time_entries[n].duration_minutes # None
            THEN time_entries[n].duration_minutes ELSE 0)

\* the by_employee rows of (j, e) in a report
C18_Rows(report, j, e) ==
  IF j \in DOMAIN report
    THEN {k \in 1 .. Len(report[j].by_employee) :
            report[j].by_employee[k].employee_id = e}
    ELSE {}

AllEmployees == {"e1", "e2", "e3"}

\* C18: the billing report for month M counts, per (job, employee), exactly the sum
\* of duration_minutes over the company's entries dated in [first day of M, first
\* day of M+1); an open entry or one without duration_minutes contributes 0
\* minutes, and entries dated outside the month contribute nothing
C18_MonthMinutes ==
  (resp.op = "billing" /\ resp.code = 200)
    => LET c == CompanyOf(resp.user)
           year == resp.body.year
           mon == resp.body.mon
       IN \A j \in ManualJobIds, e \in AllEmployees :
            LET asked == resp.job_id = NoneStr \/ resp.job_id = j
                counted == {i \in 1 .. MaxEntryId : C18_Counted(i, c, year, mon, j, e)}
                rows == C18_Rows(resp.body.jobs, j, e)
            IN /\ (asked /\ counted # {}) => rows # {}
               /\ (~asked \/ counted = {}) => rows = {}
               /\ \A k \in rows :
                    resp.body.jobs[j].by_employee[k].minutes
                      = C18_Minutes(MaxEntryId, c, year, mon, j, e)

\* a January report that counts the 5 minutes of an entry of 31 January next to an
\* entry of 1 February it leaves out
C18_Witness ==
  /\ resp.op = "billing" /\ resp.code = 200
  /\ resp.body.year = 1970 /\ resp.body.mon = 1
  /\ \E i, k \in DOMAIN time_entries :
       /\ time_entries[i].date = 30 * SecondsPerDay
       /\ time_entries[k].date = 31 * SecondsPerDay
       /\ time_entries[i].company_id = "c1" /\ time_entries[k].company_id = "c1"
       /\ time_entries[i].job_id = "j1" /\ time_entries[k].job_id = "j1"
       /\ time_entries[i].employee_id = "e1" /\ time_entries[k].employee_id = "e1"
  /\ "j1" \in DOMAIN resp.body.jobs
  /\ resp.body.jobs["j1"].minutes = 5

\* a report that lists an open entry with 0 minutes
C18_WitnessOpen ==
  /\ resp.op = "billing" /\ resp.code = 200
  /\ \E i \in DOMAIN time_entries : time_entries[i].duration_minutes = None
  /\ "j1" \in DOMAIN resp.body.jobs
  /\ resp.body.jobs["j1"].minutes = 0

\* the sum of field f over the rows of a by_employee list
RECURSIVE C20_Sum(_, _)
C20_Sum(rows, f) ==
  IF rows = <<>> THEN 0 ELSE Head(rows)[f] + C20_Sum(Tail(rows), f)

\* C20: in the billing report each job's minutes is the sum of its per-employee
\* minutes and each job's amount the sum of its per-employee amounts, every
\* per-employee amount being round(minutes / 60 * resolved rate, 2) of its own
\* group; each (job, employee) group appears exactly once in by_employee
C20_Rollup ==
  (resp.op = "billing" /\ resp.code = 200)
    => \A j \in DOMAIN resp.body.jobs :
         LET job == resp.body.jobs[j]
             rows == job.by_employee
         IN /\ job.minutes = C20_Sum(rows, "minutes")
            /\ job.amount = C20_Sum(rows, "amount")
            /\ \A k \in 1 .. Len(rows) :
                 LET rate == C14_Expected(CompanyOf(resp.user), j, rows[k].employee_id)
                 IN /\ rows[k].rate = rate
                    /\ 2 * (rows[k].amount * 60 - rows[k].minutes * rate * 100) <= 60
                    /\ 2 * (rows[k].minutes * rate * 100 - rows[k].amount * 60) <= 60
            /\ \A k, l \in 1 .. Len(rows) :
                 rows[k].employee_id = rows[l].employee_id => k = l
            /\ \A e \in AllEmployees :
                 (\E i \in DOMAIN time_entries :
                    C18_Counted(i, CompanyOf(resp.user), resp.body.year, resp.body.mon, j, e))
                   => \E k \in 1 .. Len(rows) : rows[k].employee_id = e

\* two employees with 5 minutes each on a job of rate 10: 0.83 each, 1.66 for the
\* job, where 10 minutes billed at once would be 1.67
C20_Witness ==
  /\ resp.op = "billing" /\ resp.code = 200
  /\ "j1" \in DOMAIN resp.body.jobs
  /\ Len(resp.body.jobs["j1"].by_employee) = 2
  /\ resp.body.jobs["j1"].minutes = 10
  /\ resp.body.jobs["j1"].amount = 166
  /\ \A k \in 1 .. 2 : resp.body.jobs["j1"].by_employee[k].amount = 83

\* C21: after clock-out or abandon from any sub-state the stored closed entry has
\* break_started_at = null and paused_started_at = null, and its stored
\* break_minutes and paused_minutes include the floor-minute length of the span
\* that was open at the moment of closing
C21_CloseCommitsSpans ==
  [][\A u \in AllCallers :
       (/\ Handles("clock_out", u) \/ Handles("abandon", u)
        /\ resp'.entry_id # None)
         => LET old == time_entries[resp'.entry_id]
                new == time_entries'[resp'.entry_id]
            IN /\ new.end_ts = now
               /\ new.break_started_at = None
               /\ new.paused_started_at = None
               /\ new.break_minutes =
                    old.break_minutes
                    + (IF old.break_started_at # None
                         THEN Max0((now - old.break_started_at) \div 60) ELSE 0)
               /\ new.paused_minutes =
                    old.paused_minutes
                    + (IF old.paused_started_at # None
                         THEN Max0((now - old.paused_started_at) \div 60) ELSE 0)]_vars

\* C22: once a clock-sourced entry is closed (end_ts set, is_active = false) its
\* end_ts, duration_minutes, break_minutes, paused_minutes and abandoned_reason
\* change in no later step, for every interleaving of break end, pause, resume,
\* clock-out, abandon and manual-edit requests, also those that read the entry
\* before it was closed and write after
C22_ClosedIsFrozen ==
  [][\A i \in DOMAIN time_entries :
       (/\ time_entries[i].source = "clock"
        /\ time_entries[i].end_ts # None
        /\ ~time_entries[i].is_active)
         => /\ i \in DOMAIN time_entries'
            /\ time_entries'[i].end_ts = time_entries[i].end_ts
            /\ time_entries'[i].duration_minutes = time_entries[i].duration_minutes
            /\ time_entries'[i].break_minutes = time_entries[i].break_minutes
            /\ time_entries'[i].paused_minutes = time_entries[i].paused_minutes
            /\ time_entries'[i].abandoned_reason = time_entries[i].abandoned_reason]_vars

\* C23: break_minutes and paused_minutes of every entry are >= 0 in every reachable
\* state, and while the entry is open no step (break end, pause, resume, or any
\* interleaving of them) decreases either stored value
C23_MinutesMonotone ==
  /\ [](\A i \in DOMAIN time_entries :
          time_entries[i].break_minutes >= 0 /\ time_entries[i].paused_minutes >= 0)
  /\ [][\A i \in DOMAIN time_entries :
          (/\ time_entries[i].end_ts = None
           /\ i \in DOMAIN time_entries'
           /\ time_entries'[i].end_ts = None)
            => /\ time_entries'[i].break_minutes >= time_entries[i].break_minutes
               /\ time_entries'[i].paused_minutes >= time_entries[i].paused_minutes]_vars

\* the assignment state and the activity action each transition is to leave
C24_State(op) ==
  CASE op = "clock_in" -> "in_progress"
    [] op = "pause" -> "paused"
    [] op = "resume" -> "in_progress"
    [] op = "clock_out" -> "done"
    [] op = "abandon" -> "canceled"

C24_Action(op) ==
  CASE op = "clock_in" -> "started"
    [] op = "pause" -> "paused"
    [] op = "resume" -> "resumed"
    [] op = "clock_out" -> "done"
    [] op = "abandon" -> "abandoned"

\* C24: when an assignment row exists for (company, job, employee) and the
\* side-effect writes succeed, its state is in_progress after a successful
\* clock-in, paused after pause, in_progress after resume, done after clock-out and
\* canceled after abandon, and each of these transitions appends exactly one
\* activity record with action started, paused, resumed, done or abandoned; break
\* start and break end change neither the assignment nor the activity log
C24_AssignmentFollows ==
  [][\A u \in AllCallers :
       /\ \A op \in {"clock_in", "pause", "resume", "clock_out", "abandon"} :
            (/\ Handles(op, u)
             /\ resp'.code = 200 /\ resp'.fail = "none" /\ resp'.entry_id # None
             /\ <<CompanyOf(u), time_entries'[resp'.entry_id].job_id,
                  _get_current_employee_id(u)>> \in DOMAIN job_assignments)
              => LET c == CompanyOf(u)
                     e == _get_current_employee_id(u)
                     j == time_entries'[resp'.entry_id].job_id
                 IN /\ DOMAIN job_assignments' = DOMAIN job_assignments
                    /\ job_assignments'[<<c, j, e>>].state = C24_State(op)
                    /\ \A k \in DOMAIN job_assignments \ {<<c, j, e>>} :
                         job_assignments'[k] = job_assignments[k]
                    /\ \E d \in BagToSet(assignment_activity') :
                         /\ d.company_id = c /\ d.employee_id = e /\ d.job_id = j
                         /\ d.action = C24_Action(op)
                         /\ assignment_activity' = assignment_activity (+) SetToBag({d})
       /\ (Handles("break_start", u) \/ Handles("break_end", u))
            => UNCHANGED <<job_assignments, assignment_activity>>]_vars

\* a pause on an assigned job has been answered: the row is paused and the log
\* holds the "paused" record
C24_Witness ==
  /\ resp.op = "pause" /\ resp.code = 200 /\ resp.fail = "none"
  /\ <<"c1", "j1", "e1">> \in DOMAIN job_assignments
  /\ job_assignments[<<"c1", "j1", "e1">>].state = "paused"
  /\ \E d \in BagToSet(assignment_activity) : d.action = "paused"

\* a break has ended on an assigned job whose row is in_progress
C24_WitnessBreak ==
  /\ resp.op = "break_end" /\ resp.code = 200 /\ resp.entry_id # None
  /\ <<"c1", "j1", "e1">> \in DOMAIN job_assignments
  /\ job_assignments[<<"c1", "j1", "e1">>].state = "in_progress"

\* the rows of entries a read has answered with
ReadRows ==
  IF resp.op = "list" /\ resp.code = 200 THEN resp.body.items
  ELSE IF resp.op = "details" /\ resp.code = 200 THEN resp.body.entries
  ELSE <<>>

\* the whole minutes from a marker to t; 0 when the marker is not set
C25_OpenSpan(marker, t) ==
  IF marker = None THEN 0 ELSE Max0((t - marker) \div SecondsPerMinute)

\* the duration of an open entry as of t
C25_Expected(doc, t) ==
  Max0((t - doc.start_ts) \div SecondsPerMinute
       - doc.break_minutes - doc.paused_minutes
       - C25_OpenSpan(doc.break_started_at, t)
       - C25_OpenSpan(doc.paused_started_at, t))

\* C25: for an open entry the duration reported by list my entries and by
\* assignment details at read time t is max(0, floor-minutes(t - start_ts) -
\* committed break_minutes - committed paused_minutes - the in-flight break span -
\* the in-flight pause span); the read writes nothing (a reported null reads as 0)
C25_OpenDuration ==
  /\ [](\A k \in 1 .. Len(ReadRows) :
          time_entries[ReadRows[k].id].end_ts = None
            => Or0(ReadRows[k].duration_minutes)
                 = C25_Expected(time_entries[ReadRows[k].id], now))
  /\ [][\A u \in AllCallers :
          (Handles("list", u) \/ Handles("details", u)) => UNCHANGED db]_vars

\* C28: for every closed entry the duration (and so the amount) reported by list
\* my entries and by assignment details is the duration_minutes frozen at close
\* and returned by clock-out or abandon, whatever sub-state the entry was closed
\* from, also when the frozen duration is 0 (a reported null reads as 0)
C28_ClosedDuration ==
  \A k \in 1 .. Len(ReadRows) :
    LET doc == time_entries[ReadRows[k].id]
    IN doc.end_ts # None
         => /\ Or0(ReadRows[k].duration_minutes) = doc.duration_minutes
            /\ ReadRows[k].amount
                 = RoundHalfEven(doc.duration_minutes * ReadRows[k].rate * CentsPerUnit,
                                 MinutesPerHour)

\* C26: for every stored time entry, clock or manual, in every reachable state,
\* end_ts, when present, is strictly after start_ts, also when clock-out or
\* abandon is issued at the same instant as the clock-in
C26_EndAfterStart ==
  \A i \in DOMAIN time_entries :
    time_entries[i].end_ts # None => time_entries[i].end_ts > time_entries[i].start_ts

\* every row in state in_progress or paused has an active entry of its employee on
\* its job, in the collections ja and te
C27_Backed(ja, te) ==
  \A k \in DOMAIN ja :
    ja[k].state \in {"in_progress", "paused"}
      => \E i \in DOMAIN te :
           /\ te[i].company_id = k[1] /\ te[i].job_id = k[2] /\ te[i].employee_id = k[3]
           /\ te[i].is_active

\* C27: whenever an assignment row is in state in_progress or paused, the employee
\* of the row has an active time entry on that job; every clock-in, pause, resume,
\* clock-out, abandon, delete entry, assign and unassign whose writes all succeed
\* keeps it so
C27_InProgressHasActiveEntry ==
  [][(C27_Backed(job_assignments, time_entries) /\ resp'.fail = "none")
       => C27_Backed(job_assignments', time_entries')]_vars

C29_CanAlwaysClose ==
  /\ [](\A u \in Workers :
          (Idle /\ OpenOf(u) # {})
            => /\ ENABLED (ClockOut(u) /\ resp'.code = 200)
               /\ ENABLED (Abandon(u, "sick") /\ resp'.code = 200))
  /\ [][\A u \in Workers :
          /\ ((Handles("clock_out", u) \/ Handles("abandon", u)) /\ OpenOf(u) # {})
               => /\ resp'.code = 200
                  /\ resp'.entry_id \in OpenOf(u)
                  /\ ~time_entries'[resp'.entry_id].is_active
          /\ \A j \in JobIds :
               (/\ Handles("clock_in", u) /\ resp'.job_id = j
                /\ OpenOf(u) = {}
                /\ j \in DOMAIN jobs /\ jobs[j].active
                /\ jobs[j].company_id = CompanyOf(u)
                /\ ~C10_Gated(u, j))
                 => resp'.code = 200 /\ resp'.entry_id \in OpenOf(u)']_vars
  /\ \A u \in Workers : (OpenOf(u) # {}) ~> (OpenOf(u) = {})

\* a clock-out of an entry that was paused has been answered: the entry, still
\* carrying its pause marker, is no longer active
C29_Witness ==
  /\ resp.op = "clock_out" /\ resp.code = 200
  /\ resp.entry_id \in DOMAIN time_entries
  /\ ~time_entries[resp.entry_id].is_active
  /\ time_entries[resp.entry_id].paused_started_at # None
  /\ OpenOf("u1") = {}

====
